---------------------------- MODULE Spec2Model ----------------------------
(* dep-expand (src/src/lib.rs): the Expander configuration and its builder, *)
(* expand / expand_path with the Missing-Workspace fallback, run_cargo with *)
(* its argument list and outcome classification, find_package and filter.   *)
(*                                                                          *)
(* Strings of the program are TLA+ strings (concatenated with \o, cut with  *)
(* SubSeq).  Paths are sequences of segments.  Rust source text is a        *)
(* sequence of lexical tokens.                                              *)
EXTENDS Naturals, Sequences, FiniteSets, TLC

(* ------------------------------ bounds -------------------------------- *)
\* most entries of Expander::features / Expander::unstable_flags
MaxVecLen == 2
\* most builder calls before the Expander is used
MaxBuilderCalls == 1
\* builder calls in a chain that starts from Expander::default()
MaxBuilderChain == 3
\* most packages in a package graph returned by `cargo metadata`
MaxPkgs == 2
\* most pieces a captured standard-error text is made of
MaxStderrLen == 5
\* most tokens of a source text given to filter
MaxTextLen == 4
\* distinct random suffixes the temp-dir crates may draw
MaxTok == 2
\* callers that may run expand at the same time
MaxCallers == 2

(* ------------------------------ strings ------------------------------- *)
\* str::starts_with
starts_with(s, p) == Len(p) <= Len(s) /\ SubSeq(s, 1, Len(p)) = p

\* str::ends_with
ends_with(s, p) ==
    Len(p) <= Len(s) /\ SubSeq(s, Len(s) - Len(p) + 1, Len(s)) = p

IsWhitespace(ch) == ch \in {" ", "\n", "\t"}

\* str::trim_end: the string without its trailing whitespace
RECURSIVE trim_end(_)
trim_end(s) ==
    IF Len(s) = 0 THEN s
    ELSE IF IsWhitespace(SubSeq(s, Len(s), Len(s)))
         THEN trim_end(SubSeq(s, 1, Len(s) - 1))
         ELSE s

\* [String]::join
RECURSIVE join(_, _)
join(v, sep) ==
    IF Len(v) = 0 THEN ""
    ELSE IF Len(v) = 1 THEN v[1]
    ELSE v[1] \o sep \o join(Tail(v), sep)

(* ------------------------------- paths -------------------------------- *)
\* An absolute path is the sequence of its segments; <<>> is the root "/".
\* Option<T>: None is <<>>, Some(v) is <<v>>.
None == <<>>
Some(v) == <<v>>
IsSome(o) == Len(o) = 1
unwrap(o) == o[1]

\* Path::parent
parent(p) == IF Len(p) = 0 THEN None ELSE Some(SubSeq(p, 1, Len(p) - 1))

\* Path::file_name
file_name(p) == IF Len(p) = 0 THEN None ELSE Some(p[Len(p)])

\* Path::join with one segment
path_join(p, seg) == Append(p, seg)

\* the path as it is handed to the build tool
PathStr(p) == IF Len(p) = 0 THEN "/" ELSE "/" \o join(p, "/")

(* --------------------------- results ---------------------------------- *)
\* anyhow::Result<String>: Ok(text) or Err(error).  `name` is the package
\* name an error message carries ("" when it carries none).
Ok(t) == [ok |-> TRUE, text |-> t, err |-> "", name |-> ""]
Err(e) == [ok |-> FALSE, text |-> <<>>, err |-> e, name |-> ""]
ErrNamed(e, n) == [ok |-> FALSE, text |-> <<>>, err |-> e, name |-> n]

\* the error kinds expand and filter can return
ErrMissingWorkspace == "MissingWorkspace"
ErrPackageNotFound == "PackageNotFound"
ErrMetadata == "MetadataQueryFailed"
ErrSpawn == "Io(spawn)"
ErrRead == "Io(read_to_string)"
ErrEmptyOutput == "EmptyOutput"
ErrNoDepDir == "Failed to find dependency dir"
ErrCopy == "Io(copy)"
ErrParse == "ParseError"

(* ------------------------ Expander and builder ------------------------ *)
FeatureNames == {"f1", "f2"}
UnstableFlagNames == {"u1", "u2"}
ManifestOverrides == {<<"ws", "Cargo.toml">>}

\* #[derive(Default)] Expander
DefaultExpander ==
    [features |-> <<>>, all_features |-> FALSE, no_default_features |-> FALSE,
     tests |-> FALSE, release |-> FALSE, unstable_flags |-> <<>>,
     manifest_path |-> None]

\* add_feature leaving out a name the features already hold
add_feature_Dedup(e, s) ==
    IF \E i \in 1..Len(e.features) : e.features[i] = s THEN e
    ELSE [e EXCEPT !.features = Append(@, s)]
add_feature(e, s) == [e EXCEPT !.features = Append(@, s)]
\* add_unstable_flag putting the flag in front
add_unstable_flag_Front(e, s) == [e EXCEPT !.unstable_flags = <<s>> \o @]
add_unstable_flag(e, s) == [e EXCEPT !.unstable_flags = Append(@, s)]
\* with_manifest building on Expander::default() instead of self
with_manifest_FromDefault(e, s) == [DefaultExpander EXCEPT !.manifest_path = Some(s)]
with_manifest(e, s) == [e EXCEPT !.manifest_path = Some(s)]
with_tests(e) == [e EXCEPT !.tests = TRUE]
with_all_features(e) == [e EXCEPT !.all_features = TRUE]
with_no_default_features(e) == [e EXCEPT !.no_default_features = TRUE]
with_release(e) == [e EXCEPT !.release = TRUE]

(* ------------------------------ run_cargo ----------------------------- *)
\* the `-Z <flag>` pairs, in the order of Expander::unstable_flags
RECURSIVE UnstableArgs(_)
UnstableArgs(flags) ==
    IF Len(flags) = 0 THEN <<>>
    ELSE <<"-Z", Head(flags)>> \o UnstableArgs(Tail(flags))

\* RunCargoArgs with one argument per feature
RunCargoArgs_FeaturePerArg(e, manifest_path, outfile_path) ==
    <<"rustc">>
    \o (IF e.tests THEN <<"--profile=test">> ELSE <<"--profile=check">>)
    \o (IF e.release THEN <<"--release">> ELSE <<>>)
    \o (IF Len(e.features) # 0 THEN <<"--features">> \o e.features ELSE <<>>)
    \o (IF e.all_features THEN <<"--all-features">> ELSE <<>>)
    \o (IF e.no_default_features THEN <<"--no-default-features">> ELSE <<>>)
    \o <<"--lib", "--manifest-path", PathStr(manifest_path)>>
    \o UnstableArgs(e.unstable_flags)
    \o <<"--", "-o", PathStr(outfile_path), "-Zunstable-options",
         "--pretty=expanded">>

\* RunCargoArgs giving a manifest inside the temp directory the options of
\* Expander::default()
RunCargoArgs_PlainOnCopy(e, manifest_path, outfile_path) ==
    IF Len(manifest_path) > 0 /\ manifest_path[1] = "tmp"
    THEN <<"rustc", "--profile=check", "--lib", "--manifest-path",
           PathStr(manifest_path), "--", "-o", PathStr(outfile_path),
           "-Zunstable-options", "--pretty=expanded">>
    ELSE <<"rustc">>
         \o (IF e.tests THEN <<"--profile=test">> ELSE <<"--profile=check">>)
         \o (IF e.release THEN <<"--release">> ELSE <<>>)
         \o (IF Len(e.features) # 0
             THEN <<"--features", join(e.features, " ")>> ELSE <<>>)
         \o (IF e.all_features THEN <<"--all-features">> ELSE <<>>)
         \o (IF e.no_default_features
             THEN <<"--no-default-features">> ELSE <<>>)
         \o <<"--lib", "--manifest-path", PathStr(manifest_path)>>
         \o UnstableArgs(e.unstable_flags)
         \o <<"--", "-o", PathStr(outfile_path), "-Zunstable-options",
              "--pretty=expanded">>

\* the argument list run_cargo gives the build tool
RunCargoArgs(e, manifest_path, outfile_path) ==
    <<"rustc">>
    \o (IF e.tests THEN <<"--profile=test">> ELSE <<"--profile=check">>)
    \o (IF e.release THEN <<"--release">> ELSE <<>>)
    \o (IF Len(e.features) # 0
        THEN <<"--features", join(e.features, " ")>> ELSE <<>>)
    \o (IF e.all_features THEN <<"--all-features">> ELSE <<>>)
    \o (IF e.no_default_features THEN <<"--no-default-features">> ELSE <<>>)
    \o <<"--lib", "--manifest-path", PathStr(manifest_path)>>
    \o UnstableArgs(e.unstable_flags)
    \o <<"--", "-o", PathStr(outfile_path), "-Zunstable-options",
         "--pretty=expanded">>

\* IsMissingWorkspace without trim_end
IsMissingWorkspace_NoTrim(err) ==
    /\ starts_with(err, "error: failed to parse manifest at")
    /\ ends_with(err, "virtual manifests must be configured with [workspace]")

\* the test run_cargo makes on the captured standard error
IsMissingWorkspace(err) ==
    /\ starts_with(err, "error: failed to parse manifest at")
    /\ ends_with(trim_end(err),
                 "virtual manifests must be configured with [workspace]")

\* A file of the output directory: st is "missing", "unreadable" (not
\* UTF-8, or an I/O error) or "text" with the text it holds.
MissingFile == [st |-> "missing", text |-> <<>>]
UnreadableFile == [st |-> "unreadable", text |-> <<>>]
TextFile(t) == [st |-> "text", text |-> t]

\* std::fs::read_to_string
read_to_string(f) == IF f.st = "text" THEN Ok(f.text) ELSE Err(ErrRead)

\* RunCargoResult with the emptiness test inverted
RunCargoResult_InvertedEmpty(output, file) ==
    IF IsMissingWorkspace(output.stderr) THEN Err(ErrMissingWorkspace)
    ELSE LET content == read_to_string(file) IN
         IF ~content.ok THEN content
         ELSE IF Len(content.text) # 0 THEN Err(ErrEmptyOutput)
         ELSE Ok(content.text)

\* RunCargoResult failing when the build tool did not exit with success
RunCargoResult_CheckStatus(output, file) ==
    IF IsMissingWorkspace(output.stderr) THEN Err(ErrMissingWorkspace)
    ELSE IF output.status # 0 THEN Err(ErrSpawn)
    ELSE LET content == read_to_string(file) IN
         IF ~content.ok THEN content
         ELSE IF Len(content.text) = 0 THEN Err(ErrEmptyOutput)
         ELSE Ok(content.text)

\* What run_cargo returns once the process has been spawned and waited
\* for: output is [status, stderr], file the state of the output file.
\* output.status is never read.
RunCargoResult(output, file) ==
    IF IsMissingWorkspace(output.stderr) THEN Err(ErrMissingWorkspace)
    ELSE LET content == read_to_string(file) IN
         IF ~content.ok THEN content
         ELSE IF Len(content.text) = 0 THEN Err(ErrEmptyOutput)
         ELSE Ok(content.text)

(* ------------------------------ metadata ------------------------------ *)
\* cargo_metadata::Package: its name and the path of its manifest
Package(n, dir) == [name |-> n, manifest_path |-> path_join(dir, "Cargo.toml")]

PackageNames == {"syn", "syn-select"}
\* directories packages live in; the last one is the filesystem root
PackageDirs == {<<"registry", "syn-1.0">>, <<"vendor", "syn-copy">>, <<>>}
Packages == {Package(n, d) : n \in PackageNames, d \in PackageDirs}

\* FindFrom matching a package whose name starts with `name`
RECURSIVE FindFrom_Prefix(_, _, _)
FindFrom_Prefix(packages, name, i) ==
    IF i > Len(packages) THEN 0
    ELSE IF starts_with(packages[i].name, name) THEN i
    ELSE FindFrom_Prefix(packages, name, i + 1)

\* Iterator::find over packages: index of the first package whose name is
\* equal to `name`, 0 when there is none
RECURSIVE FindFrom(_, _, _)
FindFrom(packages, name, i) ==
    IF i > Len(packages) THEN 0
    ELSE IF packages[i].name = name THEN i
    ELSE FindFrom(packages, name, i + 1)

\* find_package, given the Metadata that get_metadata returned
FindPackage(metadata, name) ==
    LET i == FindFrom(metadata.packages, name, 1) IN
    IF i = 0
    THEN [ok |-> FALSE, pkg |-> None, err |-> ErrPackageNotFound, name |-> name]
    ELSE [ok |-> TRUE, pkg |-> Some(metadata.packages[i]), err |-> "",
          name |-> ""]

(* ------------------------------- filter ------------------------------- *)
\* Source text is a sequence of tokens [k, name, body]: a shebang line, a
\* line break, an inner attribute #![name], a token no item can start with,
\* a function item, or a module item with the items of its body.
Tok(k, n, b) == [k |-> k, name |-> n, body |-> b]
Shebang == Tok("shebang", "", <<>>)
Newline == Tok("nl", "", <<>>)
Junk == Tok("junk", "", <<>>)
InnerAttr(n) == Tok("attr", n, <<>>)
ItemFn(n) == Tok("fn", n, <<>>)
ItemMod(n, b) == Tok("mod", n, b)

IsItem(t) == t.k \in {"fn", "mod"}

Tokens ==
    {Shebang, Newline, Junk, InnerAttr("a"), ItemFn("A"), ItemFn("B"),
     ItemMod("M", <<ItemFn("B")>>)}

\* the tokens of s without its line breaks, in order
RECURSIVE SkipNewlines(_)
SkipNewlines(s) ==
    IF Len(s) = 0 THEN <<>>
    ELSE IF Head(s) # Newline THEN <<Head(s)>> \o SkipNewlines(Tail(s))
    ELSE SkipNewlines(Tail(s))

\* number of leading tokens of s of kind k
RECURSIVE LeadingOf(_, _)
LeadingOf(s, k) ==
    IF Len(s) = 0 \/ Head(s).k # k THEN 0 ELSE 1 + LeadingOf(Tail(s), k)

\* syn::parse_file: a shebang is recognised at the very start only, line
\* breaks are skipped, inner attributes come before the items, and
\* everything after them has to be an item.
parse_file(content) ==
    LET has_shebang == Len(content) > 0 /\ Head(content) = Shebang
        rest == SkipNewlines(IF has_shebang THEN Tail(content) ELSE content)
        n == LeadingOf(rest, "attr")
        items == SubSeq(rest, n + 1, Len(rest))
    IN  IF \A i \in 1..Len(items) : IsItem(items[i])
        THEN [ok |-> TRUE,
              file |-> [shebang |-> IF has_shebang THEN Some(Shebang) ELSE None,
                        attrs |-> SubSeq(rest, 1, n),
                        items |-> items]]
        ELSE [ok |-> FALSE,
              file |-> [shebang |-> None, attrs |-> <<>>, items |-> <<>>]]

\* Search with a module that matches the last segment giving the items of
\* its body instead of itself
RECURSIVE Search_Unwrap(_, _, _)
Search_Unwrap(segments, depth, items) ==
    IF Len(items) = 0 THEN <<>>
    ELSE LET item == Head(items)
             here == IF item.name # segments[depth] THEN <<>>
                     ELSE IF item.k = "mod"
                          THEN IF depth = Len(segments) THEN item.body
                               ELSE Search_Unwrap(segments, depth + 1, item.body)
                     ELSE IF depth = Len(segments) THEN <<item>>
                     ELSE <<>>
         IN  here \o Search_Unwrap(segments, depth, Tail(items))

\* syn_select's search: an item whose name is the segment at `depth` is a
\* result when that segment is the last one, and is searched one level
\* deeper when it is a module and segments remain.
RECURSIVE Search(_, _, _)
Search(segments, depth, items) ==
    IF Len(items) = 0 THEN <<>>
    ELSE LET item == Head(items)
             here == IF item.name # segments[depth] THEN <<>>
                     ELSE IF depth = Len(segments) THEN <<item>>
                     ELSE IF item.k = "mod"
                          THEN Search(segments, depth + 1, item.body)
                     ELSE <<>>
         IN  here \o Search(segments, depth, Tail(items))

\* Selector::apply_to(&syn::File)
apply_to(selector, file) == Search(selector, 1, file.items)

\* quote!(#syntax_tree).to_string(): the inner attributes, then the items;
\* a File's shebang is not part of its tokens
to_string(file) == file.attrs \o file.items

\* filter without syntax_tree.attrs.clear()
filter_KeepAttrs(content, selector) ==
    LET parsed == parse_file(content) IN
    IF ~parsed.ok THEN Err(ErrParse)
    ELSE LET t1 == [parsed.file EXCEPT !.shebang = None]
             t3 == [t1 EXCEPT !.items = apply_to(selector, t1)]
         IN  Ok(to_string(t3))

\* filter(content, filter)
filter(content, selector) ==
    LET parsed == parse_file(content) IN
    IF ~parsed.ok THEN Err(ErrParse)
    ELSE LET t1 == [parsed.file EXCEPT !.shebang = None]
             t2 == [t1 EXCEPT !.attrs = <<>>]
             t3 == [t2 EXCEPT !.items = apply_to(selector, t2)]
         IN  Ok(to_string(t3))

Selectors == {<<"A">>, <<"B">>, <<"M">>, <<"M", "B">>}

(* ------------------------------- state -------------------------------- *)
VARIABLES
    expander,         \* the Expander value the calls borrow
    builder_budget,   \* builder calls that may still be made
    builder_log,      \* history: the builder calls of a chain, in order
    cargo_manifest_dir, \* Option: the CARGO_MANIFEST_DIR variable
    env,              \* "any" or "few": how much the collaborators may vary
    callers,          \* the callers that take part
    fs,               \* temp directories that exist, with what they hold
    pc,               \* per caller: where its call stands
    op,               \* per caller: the public operation and its arguments
    metadata,         \* per caller: Option, `metadata` of find_package
    pkg,              \* per caller: Option, `pkg` of expand
    attempt,          \* per caller: 0, or which run_cargo call of expand runs
    manifest,         \* per caller: `manifest_path` of the running run_cargo
    outdir,           \* per caller: Option, `outdir` of the running run_cargo
    tmp,              \* per caller: Option, `tmp` of expand
    output,           \* per caller: Option, `output` of run_cargo
    expand_result,    \* per caller: Option, what expand returned
    ret,              \* per caller: Option, what the public operation returned
    invocations,      \* per caller: the build invocations spawned, in order
    run_results,      \* per caller: what each run_cargo call returned, in order
    created,          \* per caller: the temp directories the call created
    filter_calls,     \* per caller: the calls of filter, in order
    fn_in,            \* input of a function applied on its own
    fn_out            \* its output

call_vars ==
    <<pc, op, metadata, pkg, attempt, manifest, outdir, tmp, output,
      expand_result, ret, invocations, run_results, created, filter_calls>>
fn_vars == <<fn_in, fn_out>>
vars ==
    <<expander, builder_budget, builder_log, cargo_manifest_dir, env, callers, fs,
      call_vars, fn_vars>>

Callers == 1..MaxCallers
NoFn == [fn |-> "none"]
NoOp == [kind |-> "none", package |-> "", path |-> <<>>]

(* --------------------------- temp directories ------------------------- *)
\* the random part of a temp directory's name
Suffixes == {ToString(n) : n \in 1..MaxTok}

\* tempfile::Builder::prefix("dep-expand").tempdir()
OutDirPath(suffix) == <<"tmp", "dep-expand" \o suffix>>

\* tempdir::TempDir::new(&format!("dep-expand-{}", pkg.name))
CopyDirPath(name, suffix) == <<"tmp", "dep-expand-" \o name \o "." \o suffix>>

EmptyDir == [expanded |-> MissingFile, copy |-> None]

\* create_dir of a directory that does not exist yet
CreateDir(f, d) == [x \in DOMAIN f \cup {d} |-> IF x = d THEN EmptyDir ELSE f[x]]

\* DropDir removing every temp directory of this library
DropDir_ByPrefix(f, d) ==
    [x \in {y \in DOMAIN f : ~starts_with(y[Len(y)], "dep-expand")} |-> f[x]]

\* TempDir::drop: the directory and all it holds are removed
DropDir(f, d) == [x \in DOMAIN f \ {d} |-> f[x]]

\* DropOpt with the TempDir leaked instead of dropped
DropOpt_Leak(f, o) == f

\* dropping an Option<TempDir>
DropOpt(f, o) == IF IsSome(o) THEN DropDir(f, unwrap(o)) ELSE f

(* ------------------------------ environment --------------------------- *)
\* package graphs `cargo metadata` may return
RECURSIVE SeqsUpTo(_, _)
SeqsUpTo(S, n) ==
    IF n = 0 THEN {<<>>}
    ELSE LET shorter == SeqsUpTo(S, n - 1) IN
         shorter \cup {Append(s, x) : s \in shorter, x \in S}

Graphs == SeqsUpTo(Packages, MaxPkgs)

\* standard-error texts the build tool may leave, real runs
SignatureText ==
    "error: failed to parse manifest at /registry/syn-1.0/Cargo.toml\n\nCaused by:\n  virtual manifests must be configured with [workspace]"
ToolStderr == {"", "error: could not compile syn\n", SignatureText \o "\n"}

ExpandedText ==
    <<Shebang, Newline, InnerAttr("a"), ItemFn("A"), Newline, ItemFn("B"),
      ItemMod("M", <<ItemFn("B")>>)>>
\* states the build tool may leave the output file in
ToolFiles ==
    {MissingFile, TextFile(<<>>), TextFile(ExpandedText),
     TextFile(<<ItemFn("A"), Junk>>)}
ToolStatus == {0, 101}

\* What the collaborators may answer: under "any" each of the answers
\* above, under "few" one package graph and two runs of the build tool.
AnswerGraphs ==
    IF env = "any" THEN Graphs
    ELSE {<<Package("syn", <<"registry", "syn-1.0">>)>>}
AnswerStderr ==
    IF env = "any" THEN ToolStderr ELSE {"", SignatureText \o "\n"}
AnswerFiles ==
    IF env = "any" THEN ToolFiles ELSE {MissingFile, TextFile(ExpandedText)}
AnswerStatus == IF env = "any" THEN ToolStatus ELSE {101}

\* selectors expand_path is called with
CallSelectors == {<<"B">>, <<"M", "B">>}

(* -------------------------------- Init -------------------------------- *)
InitCalls ==
    /\ fs = [d \in {} |-> EmptyDir]
    /\ pc = [c \in Callers |-> "idle"]
    /\ op = [c \in Callers |-> NoOp]
    /\ metadata = [c \in Callers |-> None]
    /\ pkg = [c \in Callers |-> None]
    /\ attempt = [c \in Callers |-> 0]
    /\ manifest = [c \in Callers |-> <<>>]
    /\ outdir = [c \in Callers |-> None]
    /\ tmp = [c \in Callers |-> None]
    /\ output = [c \in Callers |-> None]
    /\ expand_result = [c \in Callers |-> None]
    /\ ret = [c \in Callers |-> None]
    /\ invocations = [c \in Callers |-> <<>>]
    /\ run_results = [c \in Callers |-> <<>>]
    /\ created = [c \in Callers |-> {}]
    /\ filter_calls = [c \in Callers |-> <<>>]

Init ==
    /\ expander = DefaultExpander
    /\ builder_budget = MaxBuilderCalls
    /\ builder_log = <<>>
    /\ cargo_manifest_dir \in {None, Some(<<"ws">>)}
    /\ env = "any"
    /\ callers = {1}
    /\ InitCalls
    /\ fn_in = NoFn
    /\ fn_out = NoFn

(* ------------------------------- builder ------------------------------ *)
\* The builder methods take the Expander by value, so none runs while a
\* call borrows it.
Build(e) ==
    /\ builder_budget > 0
    /\ \A c \in Callers : pc[c] = "idle"
    /\ expander' = e
    /\ builder_budget' = builder_budget - 1
    /\ UNCHANGED <<cargo_manifest_dir, env, callers, fs, call_vars, fn_vars>>

\* the call of `method` with `arg` is added to the calls made; the calls
\* are recorded for the builder on its own, where no caller takes part
Logged(method, arg) ==
    builder_log' =
        IF callers = {}
        THEN Append(builder_log, [method |-> method, arg |-> arg])
        ELSE builder_log

AddFeature ==
    \E s \in FeatureNames :
        /\ Len(expander.features) < MaxVecLen
        /\ Build(add_feature(expander, s))
        /\ Logged("add_feature", <<s>>)
AddUnstableFlag ==
    \E s \in UnstableFlagNames :
        /\ Len(expander.unstable_flags) < MaxVecLen
        /\ Build(add_unstable_flag(expander, s))
        /\ Logged("add_unstable_flag", <<s>>)
WithManifest ==
    \E s \in ManifestOverrides :
        Build(with_manifest(expander, s)) /\ Logged("with_manifest", s)
WithTests == Build(with_tests(expander)) /\ Logged("with_tests", <<>>)
WithAllFeatures ==
    Build(with_all_features(expander)) /\ Logged("with_all_features", <<>>)
WithNoDefaultFeatures ==
    /\ Build(with_no_default_features(expander))
    /\ Logged("with_no_default_features", <<>>)
WithRelease == Build(with_release(expander)) /\ Logged("with_release", <<>>)

(* ---------------------------- expand: steps --------------------------- *)
Set(f, c, v) == [f EXCEPT ![c] = v]

\* expand returns `res` to its caller c: to the outside when c called
\* expand, into expand_path otherwise
ExpandReturns(c, res) ==
    /\ expand_result' = Set(expand_result, c, Some(res))
    /\ pc' = Set(pc, c, IF op[c].kind = "expand" THEN "returned" ELSE "expanded")
    /\ ret' = Set(ret, c, IF op[c].kind = "expand" THEN Some(res) ELSE ret[c])

\* a panic unwinds the stack of c: its TempDir values are dropped
Panics(c) ==
    /\ pc' = Set(pc, c, "panicked")
    /\ fs' = DropOpt(DropOpt(fs, outdir[c]), tmp[c])
    /\ outdir' = Set(outdir, c, None)
    /\ tmp' = Set(tmp, c, None)
    /\ output' = Set(output, c, None)
    /\ metadata' = Set(metadata, c, None)

Call(c, kind, package, path) ==
    /\ c \in callers
    /\ pc[c] = "idle"
    /\ op' = Set(op, c, [kind |-> kind, package |-> package, path |-> path])
    /\ pc' = Set(pc, c, "get_metadata")
    /\ UNCHANGED <<expander, builder_budget, builder_log, cargo_manifest_dir, env, callers, fs,
                   metadata, pkg, attempt, manifest, outdir, tmp, output,
                   expand_result, ret, invocations, created, filter_calls,
                   run_results,
                   fn_vars>>

CallExpand(c) == \E package \in PackageNames : Call(c, "expand", package, <<>>)

CallExpandPath(c) ==
    \E package \in PackageNames, path \in CallSelectors :
        Call(c, "expand_path", package, path)

\* the manifest get_metadata hands to `cargo metadata`
MetadataManifest(e, dir) ==
    IF IsSome(e.manifest_path) THEN unwrap(e.manifest_path)
    ELSE path_join(unwrap(dir), "Cargo.toml")

\* get_metadata.  The default manifest is formatted before unwrap_or looks
\* at manifest_path, so an unset CARGO_MANIFEST_DIR panics in every case.
GetMetadata(c) ==
    /\ pc[c] = "get_metadata"
    /\ IF ~IsSome(cargo_manifest_dir)
       THEN /\ Panics(c)
            /\ UNCHANGED <<expand_result, ret>>
       ELSE \E answer \in {None} \cup {Some(g) : g \in AnswerGraphs} :
            IF IsSome(answer)
            THEN /\ metadata' = Set(metadata, c,
                        Some([workspace_manifest |->
                                  MetadataManifest(expander, cargo_manifest_dir),
                              packages |-> unwrap(answer)]))
                 /\ pc' = Set(pc, c, "find_package")
                 /\ UNCHANGED <<fs, outdir, tmp, output, expand_result, ret>>
            ELSE /\ ExpandReturns(c, Err(ErrMetadata))
                 /\ UNCHANGED <<fs, outdir, tmp, output, metadata>>
    /\ UNCHANGED <<expander, builder_budget, builder_log, cargo_manifest_dir, env, callers, op,
                   pkg, attempt, manifest, invocations, created, filter_calls,
                   run_results,
                   fn_vars>>

\* the rest of find_package and, when it fails, the `?` of expand
FindPackageStep(c) ==
    /\ pc[c] = "find_package"
    /\ LET found == FindPackage(unwrap(metadata[c]), op[c].package) IN
       IF found.ok
       THEN /\ pkg' = Set(pkg, c, found.pkg)
            /\ manifest' = Set(manifest, c, unwrap(found.pkg).manifest_path)
            /\ attempt' = Set(attempt, c, 1)
            /\ pc' = Set(pc, c, "run_cargo")
            /\ UNCHANGED <<expand_result, ret>>
       ELSE /\ ExpandReturns(c, ErrNamed(found.err, found.name))
            /\ UNCHANGED <<pkg, manifest, attempt>>
    /\ metadata' = Set(metadata, c, None)
    /\ UNCHANGED <<expander, builder_budget, builder_log, cargo_manifest_dir, env, callers, fs,
                   op, outdir, tmp, output, invocations, created, filter_calls,
                   run_results,
                   fn_vars>>

\* run_cargo: creating `outdir`
RunCargoTempdir(c) ==
    /\ pc[c] = "run_cargo"
    /\ \E made \in {None} \cup
                  {Some(OutDirPath(x)) : x \in
                      {y \in Suffixes : OutDirPath(y) \notin DOMAIN fs}} :
       IF IsSome(made)
       THEN /\ fs' = CreateDir(fs, unwrap(made))
            /\ outdir' = Set(outdir, c, made)
            /\ created' = Set(created, c, created[c] \cup {unwrap(made)})
            /\ pc' = Set(pc, c, "spawn")
            /\ UNCHANGED <<tmp, output, metadata>>
       ELSE \* expect("failed to create tmp file")
            /\ Panics(c)
            /\ UNCHANGED created
    /\ UNCHANGED <<expander, builder_budget, builder_log, cargo_manifest_dir, env, callers, op,
                   pkg, attempt, manifest, expand_result, ret, invocations,
                   filter_calls, run_results,
                   fn_vars>>

outfile_path(c) == path_join(unwrap(outdir[c]), "expanded")

\* RunCargoReturns keeping `outdir` when run_cargo returns an error
RunCargoReturns_KeepOnError(c, res) ==
    /\ run_results' = Set(run_results, c, Append(run_results[c], res))
    /\ outdir' = Set(outdir, c, None)
    /\ output' = Set(output, c, None)
    /\ IF attempt[c] = 1 /\ ~res.ok /\ res.err = ErrMissingWorkspace
       THEN /\ fs' = fs
            /\ pc' = Set(pc, c, "recover")
            /\ UNCHANGED <<tmp, expand_result, ret>>
       ELSE /\ fs' = DropOpt(IF res.ok THEN DropOpt(fs, outdir[c]) ELSE fs,
                             tmp[c])
            /\ tmp' = Set(tmp, c, None)
            /\ ExpandReturns(c, res)

\* RunCargoReturns without the MissingWorkspace arm of expand
RunCargoReturns_NoRecovery(c, res) ==
    /\ run_results' = Set(run_results, c, Append(run_results[c], res))
    /\ outdir' = Set(outdir, c, None)
    /\ output' = Set(output, c, None)
    /\ fs' = DropOpt(DropOpt(fs, outdir[c]), tmp[c])
    /\ tmp' = Set(tmp, c, None)
    /\ ExpandReturns(c, res)

\* RunCargoReturns with expand taking the copy arm on every error
RunCargoReturns_RetryAnyError(c, res) ==
    /\ run_results' = Set(run_results, c, Append(run_results[c], res))
    /\ outdir' = Set(outdir, c, None)
    /\ output' = Set(output, c, None)
    /\ IF attempt[c] = 1 /\ ~res.ok
       THEN /\ fs' = DropOpt(fs, outdir[c])
            /\ pc' = Set(pc, c, "recover")
            /\ UNCHANGED <<tmp, expand_result, ret>>
       ELSE /\ fs' = DropOpt(DropOpt(fs, outdir[c]), tmp[c])
            /\ tmp' = Set(tmp, c, None)
            /\ ExpandReturns(c, res)

\* run_cargo returns `res` into expand; `outdir` is dropped.  After the
\* first call expand returns it, unless it is MissingWorkspace; after the
\* second call `tmp` is dropped and expand returns it.
RunCargoReturns(c, res) ==
    /\ run_results' = Set(run_results, c, Append(run_results[c], res))
    /\ outdir' = Set(outdir, c, None)
    /\ output' = Set(output, c, None)
    /\ IF attempt[c] = 1 /\ ~res.ok /\ res.err = ErrMissingWorkspace
       THEN /\ fs' = DropOpt(fs, outdir[c])
            /\ pc' = Set(pc, c, "recover")
            /\ UNCHANGED <<tmp, expand_result, ret>>
       ELSE /\ fs' = DropOpt(DropOpt(fs, outdir[c]), tmp[c])
            /\ tmp' = Set(tmp, c, None)
            /\ ExpandReturns(c, res)

\* run_cargo: the command is built, spawned and waited for.  The tool
\* writes to the output file it was given and to its standard error.
RunCargoSpawn(c) ==
    /\ pc[c] = "spawn"
    /\ invocations' = Set(invocations, c, Append(invocations[c],
           [args |-> RunCargoArgs(expander, manifest[c], outfile_path(c)),
            manifest_path |-> manifest[c],
            outfile_path |-> outfile_path(c)]))
    /\ \E spawned \in BOOLEAN, status \in AnswerStatus, stderr \in AnswerStderr,
          file \in AnswerFiles :
       IF spawned
       THEN /\ output' = Set(output, c,
                             Some([status |-> status, stderr |-> stderr]))
            /\ fs' = [fs EXCEPT ![unwrap(outdir[c])].expanded = file]
            /\ pc' = Set(pc, c, "classify")
            /\ UNCHANGED <<outdir, tmp, expand_result, ret, run_results>>
       ELSE RunCargoReturns(c, Err(ErrSpawn))
    /\ UNCHANGED <<expander, builder_budget, builder_log, cargo_manifest_dir, env, callers, op,
                   metadata, pkg, attempt, manifest, created, filter_calls,
                   fn_vars>>

\* run_cargo: standard error is classified, the output file is read
RunCargoFinish(c) ==
    /\ pc[c] = "classify"
    /\ RunCargoReturns(c, RunCargoResult(unwrap(output[c]),
                                         fs[unwrap(outdir[c])].expanded))
    /\ UNCHANGED <<expander, builder_budget, builder_log, cargo_manifest_dir, env, callers, op,
                   metadata, pkg, attempt, manifest, invocations, created,
                   filter_calls, fn_vars>>

\* expand, MissingWorkspace arm: creating `tmp`
RecoverTempdir(c) ==
    /\ pc[c] = "recover"
    /\ \E made \in {None} \cup
                  {Some(CopyDirPath(unwrap(pkg[c]).name, x)) : x \in
                      {y \in Suffixes :
                          CopyDirPath(unwrap(pkg[c]).name, y) \notin DOMAIN fs}} :
       IF IsSome(made)
       THEN /\ fs' = CreateDir(fs, unwrap(made))
            /\ tmp' = Set(tmp, c, made)
            /\ created' = Set(created, c, created[c] \cup {unwrap(made)})
            /\ pc' = Set(pc, c, "copy")
            /\ UNCHANGED <<outdir, output, metadata>>
       ELSE \* TempDir::new(..).unwrap()
            /\ Panics(c)
            /\ UNCHANGED created
    /\ UNCHANGED <<expander, builder_budget, builder_log, cargo_manifest_dir, env, callers, op,
                   pkg, attempt, manifest, expand_result, ret, invocations,
                   filter_calls, run_results,
                   fn_vars>>

\* CopiedManifest with the package directory's name left out
CopiedManifest_NoSubdir(tmp_path, package_dir) ==
    path_join(tmp_path, "Cargo.toml")

\* the manifest the second run_cargo call is given
CopiedManifest(tmp_path, package_dir) ==
    path_join(path_join(tmp_path, package_dir), "Cargo.toml")

\* expand, MissingWorkspace arm: the package directory is copied into `tmp`
RecoverCopy(c) ==
    /\ pc[c] = "copy"
    /\ LET dep_path == parent(unwrap(pkg[c]).manifest_path) IN
       IF ~IsSome(dep_path)
       THEN \* .context("Failed to find dependency dir")?
            /\ fs' = DropOpt(fs, tmp[c])
            /\ tmp' = Set(tmp, c, None)
            /\ ExpandReturns(c, Err(ErrNoDepDir))
            /\ UNCHANGED <<outdir, output, metadata, manifest, attempt>>
       ELSE LET package_dir == file_name(unwrap(dep_path)) IN
            IF ~IsSome(package_dir)
            THEN \* dep_path.file_name().unwrap()
                 /\ Panics(c)
                 /\ UNCHANGED <<manifest, attempt, expand_result, ret>>
            ELSE \E copied \in BOOLEAN :
                 IF copied
                 THEN /\ fs' = [fs EXCEPT ![unwrap(tmp[c])].copy =
                                  Some([name |-> unwrap(package_dir),
                                        from |-> unwrap(dep_path)])]
                      /\ manifest' = Set(manifest, c,
                             CopiedManifest(unwrap(tmp[c]), unwrap(package_dir)))
                      /\ attempt' = Set(attempt, c, 2)
                      /\ pc' = Set(pc, c, "run_cargo")
                      /\ UNCHANGED <<outdir, tmp, output, metadata,
                                     expand_result, ret>>
                 ELSE \* fs_extra::dir::copy(..)?
                      /\ fs' = DropOpt(fs, tmp[c])
                      /\ tmp' = Set(tmp, c, None)
                      /\ ExpandReturns(c, Err(ErrCopy))
                      /\ UNCHANGED <<outdir, output, metadata, manifest,
                                     attempt>>
    /\ UNCHANGED <<expander, builder_budget, builder_log, cargo_manifest_dir, env, callers, op,
                   pkg, invocations, created, filter_calls, run_results,
                   fn_vars>>

\* ExpandPathResult without the call of filter
ExpandPathResult_Unfiltered(content, path) == content

\* what expand_path returns, given what expand returned
ExpandPathResult(content, path) ==
    IF ~content.ok THEN content ELSE filter(content.text, path)

\* expand_path after expand has returned
ExpandPathFilter(c) ==
    /\ pc[c] = "expanded"
    /\ LET content == unwrap(expand_result[c]) IN
       /\ ret' = Set(ret, c, Some(ExpandPathResult(content, op[c].path)))
       /\ filter_calls' = Set(filter_calls, c,
              IF content.ok
              THEN Append(filter_calls[c],
                          [content |-> content.text, selector |-> op[c].path,
                           result |-> filter(content.text, op[c].path)])
              ELSE filter_calls[c])
    /\ pc' = Set(pc, c, "returned")
    /\ UNCHANGED <<expander, builder_budget, builder_log, cargo_manifest_dir, env, callers, fs,
                   op, metadata, pkg, attempt, manifest, outdir, tmp, output,
                   expand_result, invocations, created, run_results,
                   fn_vars>>

Next ==
    \/ AddFeature
    \/ AddUnstableFlag
    \/ WithManifest
    \/ WithTests
    \/ WithAllFeatures
    \/ WithNoDefaultFeatures
    \/ WithRelease
    \/ \E c \in Callers : CallExpand(c)
    \/ \E c \in Callers : CallExpandPath(c)
    \/ \E c \in Callers : GetMetadata(c)
    \/ \E c \in Callers : FindPackageStep(c)
    \/ \E c \in Callers : RunCargoTempdir(c)
    \/ \E c \in Callers : RunCargoSpawn(c)
    \/ \E c \in Callers : RunCargoFinish(c)
    \/ \E c \in Callers : RecoverTempdir(c)
    \/ \E c \in Callers : RecoverCopy(c)
    \/ \E c \in Callers : ExpandPathFilter(c)

Spec == Init /\ [][Next]_vars

(* --------------------------- concurrent calls ------------------------- *)
\* expand takes &self: several callers may run it on one Expander at the
\* same time, each with locals of its own, sharing the temp directory.
InitConcurrent ==
    /\ expander = DefaultExpander
    /\ builder_budget = 0
    /\ builder_log = <<>>
    /\ cargo_manifest_dir = Some(<<"ws">>)
    /\ env = "few"
    /\ callers = Callers
    /\ InitCalls
    /\ fn_in = NoFn
    /\ fn_out = NoFn

NextConcurrent ==
    \/ \E c \in Callers : CallExpand(c)
    \/ \E c \in Callers : CallExpandPath(c)
    \/ \E c \in Callers : GetMetadata(c)
    \/ \E c \in Callers : FindPackageStep(c)
    \/ \E c \in Callers : RunCargoTempdir(c)
    \/ \E c \in Callers : RunCargoSpawn(c)
    \/ \E c \in Callers : RunCargoFinish(c)
    \/ \E c \in Callers : RecoverTempdir(c)
    \/ \E c \in Callers : RecoverCopy(c)
    \/ \E c \in Callers : ExpandPathFilter(c)

SpecConcurrent == InitConcurrent /\ [][NextConcurrent]_vars

(* ------------------------ the builder on its own ---------------------- *)
\* Expander::default() and a chain of builder calls, no call of expand
InitBuilder ==
    /\ expander = DefaultExpander
    /\ builder_budget = MaxBuilderChain
    /\ builder_log = <<>>
    /\ cargo_manifest_dir = None
    /\ env = "any"
    /\ callers = {}
    /\ InitCalls
    /\ fn_in = NoFn
    /\ fn_out = NoFn

NextBuilder ==
    \/ AddFeature
    \/ AddUnstableFlag
    \/ WithManifest
    \/ WithTests
    \/ WithAllFeatures
    \/ WithNoDefaultFeatures
    \/ WithRelease

SpecBuilder == InitBuilder /\ [][NextBuilder]_vars

(* ---------------- run_cargo and filter on their own ------------------- *)
\* Expander values: the fields are public, any value can be built
Expanders ==
    [features : SeqsUpTo(FeatureNames, MaxVecLen),
     all_features : BOOLEAN, no_default_features : BOOLEAN,
     tests : BOOLEAN, release : BOOLEAN,
     unstable_flags : SeqsUpTo(UnstableFlagNames, MaxVecLen),
     manifest_path : {None}]

\* pieces the captured standard error is made of
StderrPieces ==
    {"error: ", "failed to parse manifest at", " /syn/Cargo.toml: ",
     "virtual manifests must be configured with [workspace]", "\n"}

RECURSIVE Concat(_)
Concat(v) == IF Len(v) = 0 THEN "" ELSE Head(v) \o Concat(Tail(v))

StderrTexts == {Concat(v) : v \in SeqsUpTo(StderrPieces, MaxStderrLen)}

RunCargoArgsInputs ==
    {[fn |-> "run_cargo_args", e |-> e, manifest_path |-> m,
      outfile_path |-> path_join(OutDirPath(x), "expanded")] :
        e \in Expanders, m \in {p.manifest_path : p \in Packages},
        x \in Suffixes}

RunCargoResultInputs ==
    {[fn |-> "run_cargo_result",
      output |-> [status |-> st, stderr |-> err], file |-> f] :
        st \in ToolStatus, err \in StderrTexts,
        f \in {MissingFile, UnreadableFile, TextFile(<<>>),
               TextFile(<<ItemFn("A")>>)}}

FilterInputs ==
    {[fn |-> "filter", content |-> t, selector |-> sel] :
        t \in SeqsUpTo(Tokens, MaxTextLen), sel \in Selectors}

\* two calls of add_feature, or of add_unstable_flag, on any Expander
AddTwiceInputs ==
    {[fn |-> "add_twice", e |-> e, method |-> "add_feature",
      a |-> a, b |-> b] :
        e \in Expanders, a \in FeatureNames, b \in FeatureNames}
    \cup
    {[fn |-> "add_twice", e |-> e, method |-> "add_unstable_flag",
      a |-> a, b |-> b] :
        e \in Expanders, a \in UnstableFlagNames, b \in UnstableFlagNames}

InitFn ==
    /\ expander = DefaultExpander
    /\ builder_budget = 0
    /\ builder_log = <<>>
    /\ cargo_manifest_dir = None
    /\ env = "any"
    /\ callers = {}
    /\ InitCalls
    /\ \/ fn_in \in RunCargoArgsInputs
       \/ fn_in \in RunCargoResultInputs
       \/ fn_in \in FilterInputs
       \/ fn_in \in AddTwiceInputs
    /\ fn_out = NoFn

Apply(name, out) ==
    /\ fn_in.fn = name
    /\ fn_out = NoFn
    /\ fn_out' = out
    /\ UNCHANGED <<expander, builder_budget, builder_log, cargo_manifest_dir, env, callers,
                   fs, call_vars, fn_in>>

ApplyRunCargoArgs ==
    Apply("run_cargo_args",
          [fn |-> "run_cargo_args",
           args |-> RunCargoArgs(fn_in.e, fn_in.manifest_path,
                                 fn_in.outfile_path)])

ApplyRunCargoResult ==
    Apply("run_cargo_result",
          [fn |-> "run_cargo_result",
           result |-> RunCargoResult(fn_in.output, fn_in.file)])

ApplyFilter ==
    Apply("filter",
          [fn |-> "filter", result |-> filter(fn_in.content, fn_in.selector)])

\* filter applied to the text filter returned, with the same selector
ApplyFilterAgain ==
    /\ fn_in.fn = "filter"
    /\ fn_out.fn = "filter"
    /\ fn_out.result.ok
    /\ fn_out' = [fn |-> "filter_again", first |-> fn_out.result,
                  result |-> filter(fn_out.result.text, fn_in.selector)]
    /\ UNCHANGED <<expander, builder_budget, builder_log, cargo_manifest_dir, env, callers,
                   fs, call_vars, fn_in>>

\* the builder method named `method`, called with s
AddCall(method, e, s) ==
    IF method = "add_feature" THEN add_feature(e, s)
    ELSE add_unstable_flag(e, s)

\* e.add_x(a).add_x(b) and e.add_x(b).add_x(a)
ApplyAddTwice ==
    Apply("add_twice",
          [fn |-> "add_twice",
           ab |-> AddCall(fn_in.method, AddCall(fn_in.method, fn_in.e, fn_in.a),
                          fn_in.b),
           ba |-> AddCall(fn_in.method, AddCall(fn_in.method, fn_in.e, fn_in.b),
                          fn_in.a)])

\* run_cargo's result for the same standard error and output file and
\* another exit status
ApplyRunCargoOtherStatus ==
    /\ fn_in.fn = "run_cargo_result"
    /\ fn_out.fn = "run_cargo_result"
    /\ \E status \in ToolStatus \ {fn_in.output.status} :
           fn_out' = [fn |-> "run_cargo_other_status", first |-> fn_out.result,
                      status |-> status,
                      result |-> RunCargoResult(
                          [fn_in.output EXCEPT !.status = status], fn_in.file)]
    /\ UNCHANGED <<expander, builder_budget, builder_log, cargo_manifest_dir,
                   env, callers, fs, call_vars, fn_in>>

NextFn ==
    \/ ApplyAddTwice
    \/ ApplyRunCargoOtherStatus
    \/ ApplyRunCargoArgs
    \/ ApplyRunCargoResult
    \/ ApplyFilter
    \/ ApplyFilterAgain

SpecFn == InitFn /\ [][NextFn]_vars

(* ============================== claims ================================ *)
ExpandReturned(c) == IsSome(expand_result[c])
Result(c) == unwrap(expand_result[c])
NumInvocations(c) == Len(invocations[c])

\* the first run_cargo call of c returned MissingWorkspace
FirstMissingWorkspace(c) ==
    Len(run_results[c]) >= 1 /\ run_results[c][1] = Err(ErrMissingWorkspace)

\* the directory of the package c resolved, and its final segment
PackageDir(c) ==
    LET m == unwrap(pkg[c]).manifest_path IN SubSeq(m, 1, Len(m) - 1)
FinalSegment(p) == p[Len(p)]

\* the package-copy directories among the temp directories c created
CopyDirs(c) == {d \in created[c] : starts_with(d[Len(d)], "dep-expand-")}

\* s begins with `prefix` and, once trailing whitespace is cut, ends with
\* the virtual-manifest sentence
HasSignature(s, prefix) ==
    LET suffix == "virtual manifests must be configured with [workspace]" IN
    /\ Len(s) >= Len(prefix)
    /\ SubSeq(s, 1, Len(prefix)) = prefix
    /\ \E k \in Len(suffix)..Len(s) :
        /\ SubSeq(s, k - Len(suffix) + 1, k) = suffix
        /\ \A i \in (k + 1)..Len(s) : SubSeq(s, i, i) \in {" ", "\n", "\t"}

CodePrefix == "error: failed to parse manifest at"
SpecPrefix == "failed to parse manifest"

\* the output file of the run_cargo call c is in
OutFile(c) == fs[unwrap(outdir[c])].expanded

(* ---- C1 ---- *)
\* C1 as stated: once expand has returned after a first invocation that
\* failed with MissingWorkspace, exactly two build invocations were made.
C1_ExactlyTwoAlways ==
    \A c \in Callers :
        (ExpandReturned(c) /\ FirstMissingWorkspace(c)) => NumInvocations(c) = 2

\* C1 amended: after a first invocation that failed with MissingWorkspace
\* there is never a third invocation; once expand has returned there were
\* exactly two, unless it returns the error of the failed package copy
\* (then one); the second invocation's manifest is <copy dir>/<final segment
\* of the package directory>/Cargo.toml, and while that invocation is being
\* classified the copy dir holds that subdirectory as a copy of the package
\* directory.
C1_TwoInvocationsAfterCopy ==
    \A c \in Callers :
        FirstMissingWorkspace(c) =>
            /\ NumInvocations(c) <= 2
            /\ ExpandReturned(c) =>
                   NumInvocations(c) =
                       (IF Result(c).err \in {ErrCopy, ErrNoDepDir}
                        THEN 1 ELSE 2)
            /\ NumInvocations(c) = 2 =>
                   \E d \in CopyDirs(c) :
                       /\ invocations[c][2].manifest_path =
                              d \o <<FinalSegment(PackageDir(c)), "Cargo.toml">>
                       /\ pc[c] = "classify" =>
                              /\ d \in DOMAIN fs
                              /\ fs[d].copy =
                                     Some([name |-> FinalSegment(PackageDir(c)),
                                           from |-> PackageDir(c)])

\* a run whose first invocation failed with MissingWorkspace and whose
\* second invocation, on the copy, gave the text has returned
C1_Witness ==
    \E c \in Callers :
        /\ ExpandReturned(c)
        /\ FirstMissingWorkspace(c)
        /\ NumInvocations(c) = 2
        /\ Result(c) = Ok(ExpandedText)

(* ---- C2 ---- *)
\* C2: when the first run_cargo call ends on standard error without the
\* signature and a readable, non-empty output file, expand returns exactly
\* the text of that file, after one build invocation and without a copy.
C2_FirstOutputVerbatim ==
    [][\A c \in Callers :
         (/\ pc[c] = "classify"
          /\ pc'[c] # "classify"
          /\ attempt[c] = 1
          /\ ~HasSignature(unwrap(output[c]).stderr, CodePrefix)
          /\ OutFile(c).st = "text"
          /\ OutFile(c).text # <<>>)
         => /\ expand_result'[c] = Some(Ok(OutFile(c).text))
            /\ op[c].kind = "expand" => ret'[c] = Some(Ok(OutFile(c).text))
            /\ NumInvocations(c)' = 1
            /\ CopyDirs(c)' = {}]_vars

\* expand has returned the text of the first invocation's output file
C2_Witness ==
    \E c \in Callers :
        /\ op[c].kind = "expand"
        /\ ret[c] = Some(Ok(ExpandedText))
        /\ NumInvocations(c) = 1

(* ---- C3 ---- *)
\* C3: once expand has returned, with text or with any error, none of the
\* temp directories the call created exists.
C3_ScratchDirsRemoved ==
    \A c \in Callers : ExpandReturned(c) => created[c] \cap DOMAIN fs = {}

\* expand has returned an error after the copy and the second invocation
C3_Witness ==
    \E c \in Callers :
        /\ ExpandReturned(c)
        /\ ~Result(c).ok
        /\ NumInvocations(c) = 2
        /\ CopyDirs(c) # {}
        /\ Cardinality(created[c]) >= 2

(* ---- C4 ---- *)
\* C4 as stated: expand never returns MissingWorkspace.
C4_NeverMissingWorkspace ==
    \A c \in Callers :
        ExpandReturned(c) => Result(c) # Err(ErrMissingWorkspace)

\* C4 amended: expand never returns the MissingWorkspace of the first
\* invocation; when it returns MissingWorkspace, that is the result of the
\* second invocation, and when the first invocation failed with
\* MissingWorkspace expand returns the second invocation's result or, when
\* there was none, the error of the failed copy.
C4_OnlyRetryMissingWorkspace ==
    \A c \in Callers :
        ExpandReturned(c) =>
            /\ Result(c) = Err(ErrMissingWorkspace) =>
                   /\ Len(run_results[c]) = 2
                   /\ NumInvocations(c) = 2
                   /\ run_results[c][2] = Err(ErrMissingWorkspace)
            /\ FirstMissingWorkspace(c) =>
                   IF Len(run_results[c]) = 2
                   THEN Result(c) = run_results[c][2]
                   ELSE /\ Result(c).err \in {ErrCopy, ErrNoDepDir}
                        /\ ~Result(c).ok

\* expand has returned the MissingWorkspace of its second invocation
C4_Witness ==
    \E c \in Callers :
        /\ ExpandReturned(c)
        /\ FirstMissingWorkspace(c)
        /\ Len(run_results[c]) = 2
        /\ Result(c) = Err(ErrMissingWorkspace)

(* ---- C5 ---- *)
\* C5: a first run_cargo call that fails with anything but MissingWorkspace
\* makes expand return that failure, after one build invocation, with no
\* package-copy directory and no second call; and an empty output file
\* without the signature makes the first call fail with EmptyOutput.
C5_NoRecoveryForOtherFailures ==
    /\ [](\A c \in Callers :
            (/\ Len(run_results[c]) >= 1
             /\ ~run_results[c][1].ok
             /\ run_results[c][1] # Err(ErrMissingWorkspace))
            => /\ expand_result[c] = Some(run_results[c][1])
               /\ Len(run_results[c]) = 1
               /\ NumInvocations(c) = 1
               /\ CopyDirs(c) = {})
    /\ [][\A c \in Callers :
            (/\ pc[c] = "classify"
             /\ pc'[c] # "classify"
             /\ attempt[c] = 1
             /\ ~HasSignature(unwrap(output[c]).stderr, CodePrefix)
             /\ OutFile(c) = TextFile(<<>>))
            => /\ run_results'[c] = <<Err(ErrEmptyOutput)>>
               /\ expand_result'[c] = Some(Err(ErrEmptyOutput))]_vars

\* expand has returned EmptyOutput after one invocation
C5_Witness ==
    \E c \in Callers :
        /\ expand_result[c] = Some(Err(ErrEmptyOutput))
        /\ NumInvocations(c) = 1
        /\ run_results[c] = <<Err(ErrEmptyOutput)>>

(* ---- C6 ---- *)
\* C6: find_package fails with PackageNotFound carrying the requested name
\* when no package of the graph has exactly that name, and expand then
\* returns that error with no build invocation and no temp directory made;
\* otherwise the package taken is the first of the graph with exactly that
\* name, and it is the one the first invocation is run on.
C6_ExactNameLookup ==
    /\ [][\A c \in Callers :
            (pc[c] = "find_package" /\ pc'[c] # "find_package") =>
                LET packages == unwrap(metadata[c]).packages
                    matches == {i \in 1..Len(packages) :
                                   packages[i].name = op[c].package}
                IN  IF matches = {}
                    THEN /\ expand_result'[c] =
                                Some(ErrNamed(ErrPackageNotFound, op[c].package))
                         /\ invocations'[c] = <<>>
                         /\ created'[c] = {}
                    ELSE /\ \E i \in matches :
                               /\ \A j \in matches : i <= j
                               /\ pkg'[c] = Some(packages[i])
                         /\ expand_result'[c] = None]_vars
    /\ [](\A c \in Callers :
            /\ (ExpandReturned(c) /\ Result(c).err = ErrPackageNotFound) =>
                   /\ Result(c).name = op[c].package
                   /\ invocations[c] = <<>>
                   /\ created[c] = {}
            /\ NumInvocations(c) >= 1 =>
                   invocations[c][1].manifest_path = unwrap(pkg[c]).manifest_path)

\* expand has returned PackageNotFound for "syn" without any invocation
C6_Witness ==
    \E c \in Callers :
        /\ expand_result[c] = Some(ErrNamed(ErrPackageNotFound, "syn"))
        /\ invocations[c] = <<>>

(* ---- C7 ---- *)
\* C7 as stated: run_cargo's result is MissingWorkspace exactly when
\* standard error begins with "failed to parse manifest" and, trailing
\* whitespace cut, ends with the virtual-manifest sentence.
C7_SpecPrefixClassification ==
    fn_out.fn = "run_cargo_result" =>
        (fn_out.result = Err(ErrMissingWorkspace)
            <=> HasSignature(fn_in.output.stderr, SpecPrefix))

\* C7 amended: run_cargo's result is MissingWorkspace exactly when standard
\* error begins with "error: failed to parse manifest at" and, trailing
\* whitespace cut, ends with the virtual-manifest sentence, whatever the
\* exit status and the state of the output file.
C7_Classification ==
    fn_out.fn = "run_cargo_result" =>
        (fn_out.result = Err(ErrMissingWorkspace)
            <=> HasSignature(fn_in.output.stderr, CodePrefix))

\* MissingWorkspace on exit status 0, with a non-empty output file and
\* whitespace after the sentence
C7_Witness ==
    /\ fn_out.fn = "run_cargo_result"
    /\ fn_out.result = Err(ErrMissingWorkspace)
    /\ fn_in.output.status = 0
    /\ fn_in.file = TextFile(<<ItemFn("A")>>)
    /\ ends_with(fn_in.output.stderr, "\n")

(* ---- C8 ---- *)
B(b) == IF b THEN 1 ELSE 0

\* C8: the argument list is "rustc", one profile flag, "--release" iff
\* release, "--features" and the space-joined features iff there are
\* features, "--all-features" iff all_features, "--no-default-features" iff
\* no_default_features, "--lib", "--manifest-path", the manifest, a "-Z"
\* <flag> pair per unstable flag in order, and the trailer "--", "-o", the
\* output file, "-Zunstable-options", "--pretty=expanded"; nothing else.
C8_ArgumentShape ==
    fn_out.fn = "run_cargo_args" =>
        LET a == fn_out.args
            e == fn_in.e
            at_features == 3 + B(e.release)
            at_all == at_features + 2 * B(e.features # <<>>)
            at_no_default == at_all + B(e.all_features)
            at_lib == at_no_default + B(e.no_default_features)
            at_unstable == at_lib + 3
            at_trailer == at_unstable + 2 * Len(e.unstable_flags)
        IN  /\ Len(a) = at_trailer + 4
            /\ a[1] = "rustc"
            /\ a[2] = (IF e.tests THEN "--profile=test" ELSE "--profile=check")
            /\ e.release => a[3] = "--release"
            /\ e.features # <<>> =>
                   /\ a[at_features] = "--features"
                   /\ a[at_features + 1] = join(e.features, " ")
            /\ e.all_features => a[at_all] = "--all-features"
            /\ e.no_default_features =>
                   a[at_no_default] = "--no-default-features"
            /\ a[at_lib] = "--lib"
            /\ a[at_lib + 1] = "--manifest-path"
            /\ a[at_lib + 2] = PathStr(fn_in.manifest_path)
            /\ \A i \in 1..Len(e.unstable_flags) :
                   /\ a[at_unstable + 2 * (i - 1)] = "-Z"
                   /\ a[at_unstable + 2 * (i - 1) + 1] = e.unstable_flags[i]
            /\ SubSeq(a, at_trailer, Len(a)) =
                   <<"--", "-o", PathStr(fn_in.outfile_path),
                     "-Zunstable-options", "--pretty=expanded">>

\* the arguments for tests, release, two features, both feature switches
\* and two unstable flags
C8_Witness ==
    /\ fn_out.fn = "run_cargo_args"
    /\ fn_in.e.tests /\ fn_in.e.release
    /\ fn_in.e.all_features /\ fn_in.e.no_default_features
    /\ fn_in.e.features = <<"f2", "f1">>
    /\ fn_in.e.unstable_flags = <<"u2", "u1">>
    /\ Len(fn_out.args) = 19

(* ---- C9 ---- *)
\* C9: expand_path returns the error of expand without calling filter, and
\* otherwise calls filter once, on the text expand returned and the given
\* selector, and returns what filter returned; after expand has returned it
\* makes no build invocation and touches no temp directory.
C9_ExpandPathIsFilterOfExpand ==
    /\ [](\A c \in Callers :
            (op[c].kind = "expand_path" /\ IsSome(ret[c])) =>
                /\ ExpandReturned(c)
                /\ IF ~Result(c).ok
                   THEN ret[c] = Some(Result(c)) /\ filter_calls[c] = <<>>
                   ELSE /\ Len(filter_calls[c]) = 1
                        /\ filter_calls[c][1].content = Result(c).text
                        /\ filter_calls[c][1].selector = op[c].path
                        /\ ret[c] = Some(filter_calls[c][1].result))
    /\ [][\A c \in Callers :
            (pc[c] = "expanded" /\ pc'[c] # "expanded") =>
                /\ invocations'[c] = invocations[c]
                /\ created'[c] = created[c]
                /\ fs' = fs
                /\ expand_result'[c] = expand_result[c]]_vars

\* expand_path has returned the filtered text, which is not the text
\* expand returned
C9_Witness ==
    \E c \in Callers :
        /\ op[c].kind = "expand_path"
        /\ IsSome(ret[c])
        /\ unwrap(ret[c]).ok
        /\ unwrap(ret[c]).text # Result(c).text
        /\ unwrap(ret[c]).text # <<>>

(* ---- C10 ---- *)
\* C10: on text that does not parse filter returns ParseError; on text that
\* parses it returns text that parses again to a file without shebang and
\* without inner attributes whose items are exactly the items the selector
\* gives on the parsed input, in the same order.
C10_FilterResult ==
    fn_out.fn = "filter" =>
        LET parsed == parse_file(fn_in.content) IN
        IF ~parsed.ok THEN fn_out.result = Err(ErrParse)
        ELSE /\ fn_out.result.ok
             /\ \A i \in 1..Len(fn_out.result.text) :
                    fn_out.result.text[i].k \notin {"shebang", "attr"}
             /\ LET again == parse_file(fn_out.result.text) IN
                /\ again.ok
                /\ again.file.shebang = None
                /\ again.file.attrs = <<>>
                /\ again.file.items = apply_to(fn_in.selector, parsed.file)

\* a text with shebang, inner attribute and the items A and B, filtered by
\* the selector B, gives exactly the item B
C10_Witness ==
    /\ fn_out.fn = "filter"
    /\ fn_in.content = <<Shebang, InnerAttr("a"), ItemFn("A"), ItemFn("B")>>
    /\ fn_in.selector = <<"B">>
    /\ fn_out.result = Ok(<<ItemFn("B")>>)

(* ---- C11 ---- *)
\* C11 as stated: for every text that parses and every selector, filtering
\* the filtered text again with the same selector succeeds and gives the
\* filtered text unchanged.
C11_FilterIdempotent ==
    fn_out.fn = "filter_again" => fn_out.result = fn_out.first

\* C11 amended: filtering the filtered text again always succeeds; with a
\* selector of one segment it gives the filtered text unchanged; with a
\* selector of more segments it gives the empty text whenever no item of
\* the filtered text is named as the selector's first segment.
C11_IdempotentForOneSegment ==
    fn_out.fn = "filter_again" =>
        LET sel == fn_in.selector
            first == fn_out.first.text
        IN  /\ fn_out.result.ok
            /\ Len(sel) = 1 => fn_out.result = fn_out.first
            /\ (Len(sel) > 1 /\ \A i \in 1..Len(first) : first[i].name # sel[1])
                   => fn_out.result = Ok(<<>>)

\* the module M, selected by M out of a text with an inner attribute and
\* another item, is selected again
C11_Witness ==
    /\ fn_out.fn = "filter_again"
    /\ fn_in.selector = <<"M">>
    /\ fn_in.content = <<InnerAttr("a"), ItemFn("A"), ItemMod("M", <<ItemFn("B")>>)>>
    /\ fn_out.first = Ok(<<ItemMod("M", <<ItemFn("B")>>)>>)
    /\ fn_out.result = fn_out.first

(* ---- C12 ---- *)
\* the names a sequence holds
Names(v) == {v[i] : i \in 1..Len(v)}

\* C12 as stated: add_feature(f1) then add_feature(f2) gives the same set
\* of features as the two calls in the reverse order, and
\* add_unstable_flag(u1) then add_unstable_flag(u2) gives the same
\* collection of unstable flags as the reverse order.
C12_OrderIndependent ==
    fn_out.fn = "add_twice" =>
        /\ Names(fn_out.ab.features) = Names(fn_out.ba.features)
        /\ fn_out.ab.unstable_flags = fn_out.ba.unstable_flags

\* C12 amended: two add_feature calls append their names to the features
\* in the order of the calls, and two add_unstable_flag calls append their
\* flags in the order of the calls; the two orders give the same names,
\* each as often, and the same collection exactly when both calls give
\* the same name; no other field changes.
C12_CallOrderKept ==
    fn_out.fn = "add_twice" =>
        LET e == fn_in.e
            a == fn_in.a
            b == fn_in.b
        IN  IF fn_in.method = "add_feature"
            THEN /\ fn_out.ab = [e EXCEPT !.features = e.features \o <<a, b>>]
                 /\ fn_out.ba = [e EXCEPT !.features = e.features \o <<b, a>>]
                 /\ Names(fn_out.ab.features) = Names(fn_out.ba.features)
                 /\ (fn_out.ab = fn_out.ba) <=> (a = b)
            ELSE /\ fn_out.ab =
                        [e EXCEPT !.unstable_flags = e.unstable_flags \o <<a, b>>]
                 /\ fn_out.ba =
                        [e EXCEPT !.unstable_flags = e.unstable_flags \o <<b, a>>]
                 /\ (fn_out.ab = fn_out.ba) <=> (a = b)

\* u1 then u2, and u2 then u1, added to a configuration that has a flag
C12_Witness ==
    /\ fn_out.fn = "add_twice"
    /\ fn_in.method = "add_unstable_flag"
    /\ fn_in.e.unstable_flags = <<"u2">>
    /\ fn_out.ab.unstable_flags = <<"u2", "u1", "u2">>
    /\ fn_out.ba.unstable_flags = <<"u2", "u2", "u1">>

(* ---- C13 ---- *)
Fields ==
    {"features", "all_features", "no_default_features", "tests", "release",
     "unstable_flags", "manifest_path"}

\* the option a builder method sets
OwnField(method) ==
    CASE method = "add_feature" -> "features"
      [] method = "add_unstable_flag" -> "unstable_flags"
      [] method = "with_manifest" -> "manifest_path"
      [] method = "with_tests" -> "tests"
      [] method = "with_all_features" -> "all_features"
      [] method = "with_no_default_features" -> "no_default_features"
      [] method = "with_release" -> "release"

\* v is u with x added at the end
Appended(u, v, x) ==
    Len(v) = Len(u) + 1 /\ SubSeq(v, 1, Len(u)) = u /\ v[Len(v)] = x

\* C13: a builder call leaves every option but its own as it was; its own
\* option becomes the manifest given (with_manifest) or true (the four
\* switches), and add_feature and add_unstable_flag keep the entries there
\* were, in their order, and add the new one at the end.
C13_BuilderFrame ==
    [][builder_log' # builder_log =>
        LET call == builder_log'[Len(builder_log')]
            own == OwnField(call.method)
        IN  /\ \A f \in Fields \ {own} : expander'[f] = expander[f]
            /\ IF call.method \in {"add_feature", "add_unstable_flag"}
               THEN Appended(expander[own], expander'[own], call.arg[1])
               ELSE IF call.method = "with_manifest"
               THEN expander'[own] = Some(call.arg)
               ELSE expander'[own] = TRUE]_vars

\* add_feature, with_manifest and add_feature again
C13_Witness ==
    /\ Len(builder_log) >= 3
    /\ builder_log[3].method = "add_feature"
    /\ builder_log[2].method = "with_manifest"
    /\ expander.features = <<"f1", "f2">>
    /\ IsSome(expander.manifest_path)

(* ---- C14 ---- *)
\* no name is twice in v
Unique(v) == \A i, j \in 1..Len(v) : i # j => v[i] # v[j]

\* the names given to add_feature by the calls of log, in order
RECURSIVE FeaturesAdded(_)
FeaturesAdded(log) ==
    IF Len(log) = 0 THEN <<>>
    ELSE (IF Head(log).method = "add_feature" THEN Head(log).arg ELSE <<>>)
         \o FeaturesAdded(Tail(log))

\* the value that follows "--features" in args, if there is one
FeaturesArg(args) ==
    {args[i + 1] : i \in {j \in 1..(Len(args) - 1) : args[j] = "--features"}}

\* C14 as stated: after any builder calls no feature name is twice among
\* the features.
C14_FeaturesUnique == Unique(expander.features)

\* C14 amended: after any builder calls the features are the names given
\* to add_feature, in the order of the calls, one entry per call, so a name
\* added twice is there twice; the "--features" argument is these entries
\* joined by spaces.
C14_FeaturesAreTheCalls ==
    /\ expander.features = FeaturesAdded(builder_log)
    /\ expander.features # <<>> =>
          FeaturesArg(RunCargoArgs(expander, <<"syn", "Cargo.toml">>,
                                   path_join(OutDirPath("1"), "expanded")))
              = {join(FeaturesAdded(builder_log), " ")}

\* f1 added twice
C14_Witness ==
    /\ expander.features = <<"f1", "f1">>
    /\ FeaturesAdded(builder_log) = <<"f1", "f1">>

(* ---- C15 ---- *)
\* the temp directories caller c holds: `outdir` of its running run_cargo
\* and `tmp` of its expand
Held(c) ==
    (IF IsSome(outdir[c]) THEN {unwrap(outdir[c])} ELSE {})
    \cup (IF IsSome(tmp[c]) THEN {unwrap(tmp[c])} ELSE {})

\* c has a build invocation under way: spawned, its output not yet read
InvocationUnderWay(c) == pc[c] = "classify"

LastInvocation(c) == invocations[c][Len(invocations[c])]

OutDirs(c) == created[c] \ CopyDirs(c)

\* the retry of c is being run: from the copy's success to the return of
\* the second run_cargo call
RetryRunning(c) ==
    attempt[c] = 2 /\ pc[c] \in {"run_cargo", "spawn", "classify"}

\* C16: within one call of expand, the output directory of an invocation
\* exists from before the spawn until run_cargo returns, having read the
\* output or classified the failure, and is removed in that very step, so
\* none exists while the copy directory is created and filled; the copy
\* directory exists, holding the copy, all through the retry, and is
\* removed only in the step in which the retry's run_cargo returns (or in
\* which the copy fails, or by a panic).
C16_ScratchDirLifecycle ==
    /\ [](\A c \in callers :
            /\ pc[c] \in {"spawn", "classify"} =>
                   /\ IsSome(outdir[c])
                   /\ OutDirs(c) \cap DOMAIN fs = {unwrap(outdir[c])}
            /\ pc[c] = "classify" =>
                   LastInvocation(c).outfile_path =
                       path_join(unwrap(outdir[c]), "expanded")
            /\ pc[c] \notin {"spawn", "classify"} =>
                   outdir[c] = None /\ OutDirs(c) \cap DOMAIN fs = {}
            /\ (pc[c] = "copy" \/ RetryRunning(c)) =>
                   /\ IsSome(tmp[c])
                   /\ unwrap(tmp[c]) \in DOMAIN fs
                   /\ RetryRunning(c) => IsSome(fs[unwrap(tmp[c])].copy))
    /\ [][\A c \in callers :
            /\ (OutDirs(c) \cap DOMAIN fs) \ DOMAIN fs' # {} =>
                   \/ Len(run_results'[c]) = Len(run_results[c]) + 1
                   \/ pc'[c] = "panicked"
            /\ (CopyDirs(c) \cap DOMAIN fs) \ DOMAIN fs' # {} =>
                   \/ Len(run_results[c]) = 1 /\ Len(run_results'[c]) = 2
                   \/ /\ pc[c] = "copy"
                      /\ expand_result'[c] \in
                             {Some(Err(ErrCopy)), Some(Err(ErrNoDepDir))}
                   \/ pc'[c] = "panicked"]_vars

\* the retry's output is about to be read: the copy directory and the
\* second output directory exist, the first output directory is gone
C16_Witness ==
    \E c \in callers :
        /\ attempt[c] = 2 /\ pc[c] = "classify"
        /\ unwrap(tmp[c]) \in DOMAIN fs
        /\ Cardinality(OutDirs(c)) = 2
        /\ Cardinality(OutDirs(c) \cap DOMAIN fs) = 1

(* ---- C17 ---- *)
\* C17: when expand has made two build invocations, their argument lists
\* have the same length and agree at every position but the one after
\* "--manifest-path" and the one after "-o", which hold each invocation's
\* own manifest and output file; and no step of a call changes the
\* Expander.
C17_RetrySameInvocation ==
    /\ [](\A c \in Callers :
            NumInvocations(c) = 2 =>
                LET first == invocations[c][1]
                    second == invocations[c][2]
                IN  /\ Len(first.args) = Len(second.args)
                    /\ \A i \in 1..Len(first.args) :
                           IF i > 1 /\ first.args[i - 1] = "--manifest-path"
                           THEN /\ second.args[i - 1] = "--manifest-path"
                                /\ first.args[i] = PathStr(first.manifest_path)
                                /\ second.args[i] = PathStr(second.manifest_path)
                           ELSE IF i > 1 /\ first.args[i - 1] = "-o"
                           THEN /\ second.args[i - 1] = "-o"
                                /\ first.args[i] = PathStr(first.outfile_path)
                                /\ second.args[i] = PathStr(second.outfile_path)
                           ELSE first.args[i] = second.args[i])
    /\ [][(\E c \in Callers : pc'[c] # pc[c]) => expander' = expander]_vars

\* two invocations of an Expander with an unstable flag; the manifests
\* differ
C17_Witness ==
    \E c \in Callers :
        /\ NumInvocations(c) = 2
        /\ expander.unstable_flags = <<"u1">>
        /\ Len(invocations[c][2].args) = 12
        /\ invocations[c][1].manifest_path # invocations[c][2].manifest_path

(* ---- C18 ---- *)
\* C18: the step in which the copy of the package directory fails makes
\* expand return the copy's error, spawns nothing and removes the copy
\* directory; and whenever expand has returned the copy's error, the first
\* invocation had returned MissingWorkspace, it is the only invocation,
\* and no temp directory of the call exists.
C18_CopyFailure ==
    /\ [][\A c \in Callers :
            (pc[c] = "copy" /\ pc'[c] \notin {"copy", "run_cargo", "panicked"}) =>
                /\ expand_result'[c] = Some(Err(ErrCopy))
                /\ invocations'[c] = invocations[c]
                /\ unwrap(tmp[c]) \in DOMAIN fs
                /\ unwrap(tmp[c]) \notin DOMAIN fs'
                /\ tmp'[c] = None]_vars
    /\ [](\A c \in Callers :
            (ExpandReturned(c) /\ Result(c) = Err(ErrCopy)) =>
                /\ FirstMissingWorkspace(c)
                /\ Len(run_results[c]) = 1
                /\ NumInvocations(c) = 1
                /\ CopyDirs(c) # {}
                /\ created[c] \cap DOMAIN fs = {})

\* expand has returned the copy's error
C18_Witness ==
    \E c \in Callers :
        /\ op[c].kind = "expand"
        /\ ret[c] = Some(Err(ErrCopy))
        /\ NumInvocations(c) = 1
        /\ Cardinality(created[c]) = 2

(* ---- C19 ---- *)
\* C19: for the same standard error and the same output file run_cargo
\* returns the same whether the build tool exited with success or with
\* failure; standard error without the signature and a non-empty output
\* file give the file's text as success on either exit status.
C19_ExitStatusIgnored ==
    fn_out.fn = "run_cargo_other_status" =>
        /\ fn_out.status # fn_in.output.status
        /\ fn_out.result = fn_out.first
        /\ (/\ ~HasSignature(fn_in.output.stderr, CodePrefix)
            /\ fn_in.file.st = "text"
            /\ fn_in.file.text # <<>>) =>
               fn_out.result = Ok(fn_in.file.text)

\* exit status 101, an error text without the signature on standard error
\* and a non-empty output file: the text is returned, as on exit status 0
C19_Witness ==
    /\ fn_out.fn = "run_cargo_other_status"
    /\ fn_out.status = 101
    /\ starts_with(fn_in.output.stderr, "error: ")
    /\ fn_in.file = TextFile(<<ItemFn("A")>>)
    /\ fn_out.result = Ok(<<ItemFn("A")>>)
    /\ fn_out.first = fn_out.result

=============================================================================
